---- MODULE Spec2Model ----
(***************************************************************************)
(* ArcGuard<T> (src/src/lib.rs): a guard around Arc<Mutex<T>>.             *)
(*                                                                         *)
(* The heap holds the cells Arc::new(Mutex::new(t)) allocates.  A cell has *)
(* the Arc's strong count, the Mutex's locked and poisoned flags and the   *)
(* protected value.  Guards (ArcGuard instances) and raw handles           *)
(* (Arc<Mutex<T>> values returned by arc() or moved out of a callback)     *)
(* are owned by threads.  A call of execute is a frame on the calling      *)
(* thread's stack; the callback's steps are the cb_* actions.              *)
(*                                                                         *)
(* Identifiers (threads, cells, guards, handles) are numbered from 1; 0    *)
(* stands for "none".  An Option is a set with at most one element.        *)
(***************************************************************************)
EXTENDS Integers, Sequences, FiniteSets, TLC

\* ------------------------------------------------------------------ bounds
NThreads == 2
MaxCells == 2
MaxLive == 1
MaxGuards == 2
MaxHandles == 1
MaxDepth == 2
MaxVal == 1

Threads == 1..NThreads
Cells == 1..MaxCells
Guards == 1..MaxGuards
Handles == 1..MaxHandles
Values == 0..MaxVal

VARIABLES
    heap,      \* Cells -> the Arc<Mutex<T>> allocation
    guards,    \* Guards -> the ArcGuard instance
    handles,   \* Handles -> a raw Arc<Mutex<T>> owned by a thread
    stack,     \* Threads -> the frames of the execute calls in progress
    unwinding, \* Threads -> a panic is unwinding the thread's stack
    rawmg,     \* Threads -> the handle whose MutexGuard the thread holds, or 0
    result     \* Threads -> what the thread's last execute call returned to it

vars == <<heap, guards, handles, stack, unwinding, rawmg, result>>

\* ------------------------------------------------ std::sync::Arc and Mutex

\* A write to the cell (history): the value, and the guard or handle it was
\* written through.
NoWrite == [v |-> 0, via |-> "none", by |-> 0]

\* The allocation before Arc::new: no cell.
FreeCell == [st |-> "free", value |-> 0, v0 |-> 0, strong |-> 0,
             locked |-> FALSE, poisoned |-> FALSE, drops |-> 0, lastw |-> NoWrite,
             panicked |-> FALSE]

\* Arc::new(Mutex::new(t)) for the guard g: strong count 1, unlocked, not
\* poisoned.  v0, lastw and panicked are history: the value the cell was made
\* with, the last write to it, and whether a holder of its lock has panicked.
ArcNew(hp, c, t, g) ==
    [hp EXCEPT ![c] = [st |-> "live", value |-> t, v0 |-> t, strong |-> 1,
                       locked |-> FALSE, poisoned |-> FALSE, drops |-> 0,
                       lastw |-> [v |-> t, via |-> "new", by |-> g],
                       panicked |-> FALSE]]

\* *value = v through a MutexGuard of cell c, got from a guard or handle that
\* was made for cell root.
Store(hp, c, root, w) ==
    LET a == [hp EXCEPT ![c].value = w.v]
    IN  [a EXCEPT ![root].lastw = w]

\* Arc::clone: one more strong reference to the same allocation.
ArcClone(hp, c) ==
    [hp EXCEPT ![c].strong = @ + 1]

\* Drop of an Arc: one strong reference fewer; the last one drops the value.
ArcDrop(hp, c) ==
    IF hp[c].strong = 1
    THEN [hp EXCEPT ![c] = [FreeCell EXCEPT !.st = "dead", !.drops = hp[c].drops + 1]]
    ELSE [hp EXCEPT ![c].strong = @ - 1]

\* A lock that excludes nobody (the cell held in an Arc without the Mutex).
MutexCanLock_always(hp, c) ==
    TRUE

\* Mutex::lock can return once the mutex is not locked.
MutexCanLock(hp, c) ==
    ~hp[c].locked

\* Mutex::lock / try_lock acquiring the mutex.
MutexLock(hp, c) ==
    [hp EXCEPT ![c].locked = TRUE]

\* What lock() has returned to the holder of the mutex: Err(PoisonError),
\* wrapping the MutexGuard, when the mutex is poisoned.
LockResult(hp, c) ==
    IF hp[c].poisoned THEN "poison" ELSE "ok"

\* Drop of the MutexGuard; dropped while panicking it poisons the mutex.
MutexUnlock(hp, c, panicking) ==
    [hp EXCEPT ![c].locked = FALSE, ![c].poisoned = @ \/ panicking]

\* ------------------------------------------------------------------ state

NoGuard == [owner |-> 0, arc |-> 0, root |-> 0]
\* A raw handle records where it came from: arc(), or a callback that kept
\* the clone it was given.
NoHandle == [owner |-> 0, arc |-> 0, root |-> 0, from |-> "none"]
Init ==
    /\ heap = [c \in Cells |-> FreeCell]
    /\ guards = [g \in Guards |-> NoGuard]
    /\ handles = [h \in Handles |-> NoHandle]
    /\ stack = [t \in Threads |-> <<>>]
    /\ unwinding = [t \in Threads |-> FALSE]
    /\ rawmg = [t \in Threads |-> 0]
    /\ result = [t \in Threads |-> {}]

Depth(t) == Len(stack[t])
Top(t) == stack[t][Depth(t)]
SetTop(t, f) == [stack EXCEPT ![t][Depth(t)] = f]
Pop(t) == [stack EXCEPT ![t] = SubSeq(@, 1, Depth(t) - 1)]

\* The thread runs its own code: it is not unwinding and not blocked in lock().
Running(t) ==
    /\ ~unwinding[t]
    /\ Depth(t) > 0 => Top(t).pc = "body"

\* The thread is at its top level, outside every execute call.
AtTop(t) ==
    /\ ~unwinding[t]
    /\ Depth(t) = 0

FreeCells == {c \in Cells : heap[c].st = "free"}
LiveCells == {c \in Cells : heap[c].st = "live"}
FreeGuards == {g \in Guards : guards[g].owner = 0}
FreeHandles == {h \in Handles : handles[h].owner = 0}
Min(S) == CHOOSE x \in S : \A y \in S : x <= y

\* History: the holder of the lock of cell c leaves its scope, panicking or not.
HolderLeaves(hp, c, panicking) ==
    [hp EXCEPT ![c].panicked = @ \/ panicking]

\* execute that catches the unwinding of its callback and clears the poison
\* of the mutex before it goes on.
CallbackExit_recover(hp, f, panicking) ==
    LET a == IF f.mg
             THEN MutexUnlock(HolderLeaves(hp, f.c, panicking), f.c, FALSE)
             ELSE hp
    IN  IF f.h = "held" THEN ArcDrop(a, f.c) ELSE a

\* The end of a callback whose MutexGuard is not dropped with its scope (the
\* lock taken by hand and left to the caller to release).
CallbackExit_leak(hp, f, panicking) ==
    IF f.h = "held" THEN ArcDrop(hp, f.c) ELSE hp

\* The callback's scope ends (by return, or by unwinding when panicking): its
\* MutexGuard, if it holds one, is dropped first, then the handle it was given,
\* unless it moved the handle out.
CallbackExit(hp, f, panicking) ==
    LET a == IF f.mg
             THEN MutexUnlock(HolderLeaves(hp, f.c, panicking), f.c, panicking)
             ELSE hp
    IN  IF f.h = "held" THEN ArcDrop(a, f.c) ELSE a

\* ------------------------------------------------------- ArcGuard<T>: new

\* new that wraps a default value and discards its argument.
new_default(t, v) ==
    /\ AtTop(t)
    /\ FreeCells # {}
    /\ Cardinality(LiveCells) < MaxLive
    /\ FreeGuards # {}
    /\ LET c == Min(FreeCells)
           g == Min(FreeGuards)
       IN  /\ heap' = ArcNew(heap, c, 0, g)
           /\ guards' = [guards EXCEPT ![g] =
                  [owner |-> t, arc |-> c, root |-> c]]
    /\ UNCHANGED <<handles, stack, unwinding, rawmg, result>>

\* pub fn new(t: T) -> Self { ArcGuard{arc: Arc::new(Mutex::new(t))} }
new(t, v) ==
    /\ AtTop(t)
    /\ FreeCells # {}
    /\ Cardinality(LiveCells) < MaxLive
    /\ FreeGuards # {}
    /\ LET c == Min(FreeCells)
           g == Min(FreeGuards)
       IN  /\ heap' = ArcNew(heap, c, v, g)
           /\ guards' = [guards EXCEPT ![g] =
                  [owner |-> t, arc |-> c, root |-> c]]
    /\ UNCHANGED <<handles, stack, unwinding, rawmg, result>>

\* ----------------------------------------------------- ArcGuard<T>: clone

\* clone as a deep copy: ArcGuard::new of a copy of the value, in a cell of
\* its own.
clone_deep(t, g, u) ==
    /\ AtTop(t)
    /\ guards[g].owner = t
    /\ FreeGuards # {}
    /\ FreeCells # {}
    /\ LET n == Min(FreeGuards)
           c == Min(FreeCells)
       IN  /\ heap' = ArcNew(heap, c, heap[guards[g].arc].value, n)
           /\ guards' = [guards EXCEPT ![n] =
                  [owner |-> u, arc |-> c, root |-> guards[g].root]]
    /\ UNCHANGED <<handles, stack, unwinding, rawmg, result>>

\* clone that copies the pointer and leaves the strong count alone.
clone_nocount(t, g, u) ==
    /\ AtTop(t)
    /\ guards[g].owner = t
    /\ FreeGuards # {}
    /\ guards' = [guards EXCEPT ![Min(FreeGuards)] =
           [owner |-> u, arc |-> guards[g].arc, root |-> guards[g].root]]
    /\ UNCHANGED <<heap, handles, stack, unwinding, rawmg, result>>

\* pub fn clone(&self) -> Self { ArcGuard{arc: self.arc.clone()} }
\* The new guard is handed to thread u (moved into a spawned thread's closure).
clone(t, g, u) ==
    /\ AtTop(t)
    /\ guards[g].owner = t
    /\ FreeGuards # {}
    /\ LET n == Min(FreeGuards)
           c == guards[g].arc
       IN  /\ heap' = ArcClone(heap, c)
           /\ guards' = [guards EXCEPT ![n] =
                  [owner |-> u, arc |-> c, root |-> guards[g].root]]
    /\ UNCHANGED <<handles, stack, unwinding, rawmg, result>>

\* ------------------------------------------------------- ArcGuard<T>: arc

\* arc that returns a handle to a cell of its own, holding a copy of the value.
arc_fresh(t, g) ==
    /\ AtTop(t)
    /\ guards[g].owner = t
    /\ FreeHandles # {}
    /\ FreeCells # {}
    /\ LET n == Min(FreeHandles)
           c == Min(FreeCells)
       IN  /\ heap' = ArcNew(heap, c, heap[guards[g].arc].value, g)
           /\ handles' = [handles EXCEPT ![n] =
                  [owner |-> t, arc |-> c, root |-> guards[g].root, from |-> "arc"]]
    /\ UNCHANGED <<guards, stack, unwinding, rawmg, result>>

\* arc that hands out the pointer and leaves the strong count alone.
arc_nocount(t, g) ==
    /\ AtTop(t)
    /\ guards[g].owner = t
    /\ FreeHandles # {}
    /\ handles' = [handles EXCEPT ![Min(FreeHandles)] =
           [owner |-> t, arc |-> guards[g].arc, root |-> guards[g].root,
            from |-> "arc"]]
    /\ UNCHANGED <<heap, guards, stack, unwinding, rawmg, result>>

\* arc that locks the mutex while it clones the pointer, and unwraps the
\* lock's result: it waits while the lock is held and fails on a poisoned one.
arc_locking(t, g) ==
    /\ AtTop(t)
    /\ guards[g].owner = t
    /\ FreeHandles # {}
    /\ MutexCanLock(heap, guards[g].arc)
    /\ LockResult(heap, guards[g].arc) = "ok"
    /\ LET n == Min(FreeHandles)
           c == guards[g].arc
       IN  /\ heap' = ArcClone(heap, c)
           /\ handles' = [handles EXCEPT ![n] =
                  [owner |-> t, arc |-> c, root |-> guards[g].root, from |-> "arc"]]
    /\ UNCHANGED <<guards, stack, unwinding, rawmg, result>>

\* pub fn arc(&self) -> Arc<Mutex<T>> { self.arc.clone() }
arc(t, g) ==
    /\ AtTop(t)
    /\ guards[g].owner = t
    /\ FreeHandles # {}
    /\ LET n == Min(FreeHandles)
           c == guards[g].arc
       IN  /\ heap' = ArcClone(heap, c)
           /\ handles' = [handles EXCEPT ![n] =
                  [owner |-> t, arc |-> c, root |-> guards[g].root, from |-> "arc"]]
    /\ UNCHANGED <<guards, stack, unwinding, rawmg, result>>

\* --------------------------------------------------- ArcGuard<T>: execute

\* The frame of a call of execute on guard g whose callback was given a handle
\* to cell c.  h: the callback still has the handle ("held") or moved it out;
\* mg: it holds a MutexGuard of the cell, and res is what lock() returned with
\* it; tmp: the value it read under the lock.
NewFrame(g, c) ==
    [g |-> g, c |-> c, h |-> "held", mg |-> FALSE, res |-> "none",
     tmp |-> {}, wrote |-> FALSE, pc |-> "body"]

\* execute that locks the mutex itself before it calls the callback.
execute_call_prelock(t, g) ==
    /\ Running(t)
    /\ rawmg[t] = 0
    /\ guards[g].owner = t
    /\ Depth(t) < MaxDepth
    /\ Depth(t) > 0 => Top(t).mg
    /\ MutexCanLock(heap, guards[g].arc)
    /\ LET c == guards[g].arc
       IN  /\ heap' = MutexLock(ArcClone(heap, c), c)
           /\ stack' = [stack EXCEPT ![t] =
                  Append(@, [NewFrame(g, c) EXCEPT
                                !.mg = TRUE, !.res = LockResult(heap, c)])]
    /\ result' = [result EXCEPT ![t] = {}]
    /\ UNCHANGED <<guards, handles, unwinding, rawmg>>

\* callback(self.arc.clone()): the clone is made and the callback is entered.
execute_call(t, g) ==
    /\ Running(t)
    /\ rawmg[t] = 0
    /\ guards[g].owner = t
    /\ Depth(t) < MaxDepth
    /\ Depth(t) > 0 => Top(t).mg
    /\ LET c == guards[g].arc
       IN  /\ heap' = ArcClone(heap, c)
           /\ stack' = [stack EXCEPT ![t] = Append(@, NewFrame(g, c))]
    /\ result' = [result EXCEPT ![t] = {}]
    /\ UNCHANGED <<guards, handles, unwinding, rawmg>>

\* execute that drops the callback's value and returns a default one.
Returned_default(r) ==
    {0}

\* What execute hands to its caller when the callback has returned r: the
\* value of the expression callback(self.arc.clone()).
Returned(r) ==
    {r}

\* execute that calls the callback a second time when it has returned (the
\* callback is an FnMut): the callback starts over with a new clone.
execute_return_again(t, r) ==
    /\ Running(t)
    /\ Depth(t) > 0
    /\ Top(t).h = "held"
    /\ heap' = ArcClone(CallbackExit(heap, Top(t), FALSE), Top(t).c)
    /\ stack' = SetTop(t, NewFrame(Top(t).g, Top(t).c))
    /\ result' = [result EXCEPT ![t] = Returned(r)]
    /\ UNCHANGED <<guards, handles, unwinding, rawmg>>

\* The callback returns r: its locals are dropped and execute returns.
execute_return(t, r) ==
    /\ Running(t)
    /\ Depth(t) > 0
    /\ heap' = CallbackExit(heap, Top(t), FALSE)
    /\ stack' = Pop(t)
    /\ result' = [result EXCEPT ![t] = Returned(r)]
    /\ UNCHANGED <<guards, handles, unwinding, rawmg>>

\* ------------------------------------- the caller-supplied callback's steps

InBody(t) ==
    /\ ~unwinding[t]
    /\ Depth(t) > 0
    /\ Top(t).pc = "body"

\* handle.lock(): the callback starts to wait for the mutex.  (On a mutex the
\* thread holds itself lock() never returns: it waits forever, or it panics,
\* which is cb_panic taken in its place.)
cb_lock(t) ==
    /\ InBody(t)
    /\ Top(t).h = "held"
    /\ ~Top(t).mg
    /\ stack' = SetTop(t, [Top(t) EXCEPT !.pc = "waiting"])
    /\ UNCHANGED <<heap, guards, handles, unwinding, rawmg, result>>

\* lock() of a reentrant mutex: it also returns when the thread that waits
\* holds the lock itself, in a call this one is nested in.
cb_acquire_reentrant(t) ==
    /\ ~unwinding[t]
    /\ Depth(t) > 0
    /\ Top(t).pc = "waiting"
    /\ \/ MutexCanLock(heap, Top(t).c)
       \/ \E i \in 1..(Depth(t) - 1) :
             stack[t][i].mg /\ stack[t][i].c = Top(t).c
    /\ heap' = MutexLock(heap, Top(t).c)
    /\ stack' = SetTop(t, [Top(t) EXCEPT !.pc = "body", !.mg = TRUE,
                                        !.res = LockResult(heap, Top(t).c)])
    /\ UNCHANGED <<guards, handles, unwinding, rawmg, result>>

\* lock() returns: the mutex was free and is now held by this callback.
cb_acquire(t) ==
    /\ ~unwinding[t]
    /\ Depth(t) > 0
    /\ Top(t).pc = "waiting"
    /\ MutexCanLock(heap, Top(t).c)
    /\ heap' = MutexLock(heap, Top(t).c)
    /\ stack' = SetTop(t, [Top(t) EXCEPT !.pc = "body", !.mg = TRUE,
                                        !.res = LockResult(heap, Top(t).c)])
    /\ UNCHANGED <<guards, handles, unwinding, rawmg, result>>

\* handle.try_lock(): acquires the mutex if it is free, fails otherwise
\* (Err(WouldBlock): nothing changes).
cb_try_lock(t) ==
    /\ InBody(t)
    /\ Top(t).h = "held"
    /\ ~Top(t).mg
    /\ IF MutexCanLock(heap, Top(t).c)
       THEN /\ heap' = MutexLock(heap, Top(t).c)
            /\ stack' = SetTop(t, [Top(t) EXCEPT !.mg = TRUE,
                                   !.res = LockResult(heap, Top(t).c)])
       ELSE /\ heap' = heap
            /\ stack' = stack
    /\ UNCHANGED <<guards, handles, unwinding, rawmg, result>>

\* let x = *value, under the lock.
cb_read(t) ==
    /\ InBody(t)
    /\ Top(t).mg
    /\ stack' = SetTop(t, [Top(t) EXCEPT !.tmp = {heap[Top(t).c].value}])
    /\ UNCHANGED <<heap, guards, handles, unwinding, rawmg, result>>

\* *value = v through the handle with no lock taken (the cell shared without
\* its Mutex).
cb_write_nolock(t, v) ==
    /\ InBody(t)
    /\ heap' = Store(heap, Top(t).c, guards[Top(t).g].root,
                     [v |-> v, via |-> "guard", by |-> Top(t).g])
    /\ stack' = SetTop(t, [Top(t) EXCEPT !.wrote = TRUE])
    /\ UNCHANGED <<guards, handles, unwinding, rawmg, result>>

\* *value = v, under the lock.
cb_write(t, v) ==
    /\ InBody(t)
    /\ Top(t).mg
    /\ heap' = Store(heap, Top(t).c, guards[Top(t).g].root,
                     [v |-> v, via |-> "guard", by |-> Top(t).g])
    /\ stack' = SetTop(t, [Top(t) EXCEPT !.wrote = TRUE])
    /\ UNCHANGED <<guards, handles, unwinding, rawmg, result>>

\* drop(mutex_guard) before the callback ends; what was read under the lock
\* is no longer current.
cb_unlock(t) ==
    /\ InBody(t)
    /\ Top(t).mg
    /\ heap' = MutexUnlock(heap, Top(t).c, FALSE)
    /\ stack' = SetTop(t, [Top(t) EXCEPT !.mg = FALSE, !.res = "none",
                                        !.tmp = {}, !.wrote = FALSE])
    /\ UNCHANGED <<guards, handles, unwinding, rawmg, result>>

\* The callback moves the handle it was given into a variable it captured:
\* the handle outlives the call.  (The borrow checker forbids it while a
\* MutexGuard borrows the handle.)
cb_stash(t) ==
    /\ InBody(t)
    /\ Top(t).h = "held"
    /\ ~Top(t).mg
    /\ FreeHandles # {}
    /\ handles' = [handles EXCEPT ![Min(FreeHandles)] =
           [owner |-> t, arc |-> Top(t).c, root |-> guards[Top(t).g].root,
            from |-> "callback"]]
    /\ stack' = SetTop(t, [Top(t) EXCEPT !.h = "moved"])
    /\ UNCHANGED <<heap, guards, unwinding, rawmg, result>>

\* The callback panics (for one, by expect() on a PoisonError): the panic
\* unwinds the call, execute catches nothing, the callback's locals are
\* dropped.  It goes on to unwind the calls this one is nested in.
cb_panic(t) ==
    /\ InBody(t)
    /\ heap' = CallbackExit(heap, Top(t), TRUE)
    /\ stack' = Pop(t)
    /\ unwinding' = [unwinding EXCEPT ![t] = Depth(t) > 1]
    /\ UNCHANGED <<guards, handles, rawmg, result>>

\* The panic unwinds the next execute call.  The caller of the outermost call
\* catches it (catch_unwind, or the join of the thread).
unwind(t) ==
    /\ unwinding[t]
    /\ Depth(t) > 0
    /\ heap' = CallbackExit(heap, Top(t), TRUE)
    /\ stack' = Pop(t)
    /\ unwinding' = [unwinding EXCEPT ![t] = Depth(t) > 1]
    /\ UNCHANGED <<guards, handles, rawmg, result>>

\* ------------------------------------------- the owners' other operations

\* drop(guard): the ArcGuard goes out of scope and its Arc is dropped.
drop_guard(t, g) ==
    /\ AtTop(t)
    /\ guards[g].owner = t
    /\ guards' = [guards EXCEPT ![g] = NoGuard]
    /\ heap' = ArcDrop(heap, guards[g].arc)
    /\ UNCHANGED <<handles, stack, unwinding, rawmg, result>>

\* drop(handle): a raw handle goes out of scope.
drop_handle(t, h) ==
    /\ AtTop(t)
    /\ handles[h].owner = t
    /\ rawmg[t] # h
    /\ handles' = [handles EXCEPT ![h] = NoHandle]
    /\ heap' = ArcDrop(heap, handles[h].arc)
    /\ UNCHANGED <<guards, stack, unwinding, rawmg, result>>

\* handle.lock() on a raw handle, at the thread's top level.
raw_lock(t, h) ==
    /\ AtTop(t)
    /\ handles[h].owner = t
    /\ rawmg[t] = 0
    /\ MutexCanLock(heap, handles[h].arc)
    /\ heap' = MutexLock(heap, handles[h].arc)
    /\ rawmg' = [rawmg EXCEPT ![t] = h]
    /\ UNCHANGED <<guards, handles, stack, unwinding, result>>

\* *value = v through the raw handle's MutexGuard.
raw_write(t, v) ==
    /\ AtTop(t)
    /\ rawmg[t] # 0
    /\ heap' = Store(heap, handles[rawmg[t]].arc, handles[rawmg[t]].root,
                     [v |-> v, via |-> "handle", by |-> rawmg[t]])
    /\ UNCHANGED <<guards, handles, stack, unwinding, rawmg, result>>

\* *Arc::get_mut(&mut handle).unwrap().get_mut() = v: the owner of the only
\* reference to the cell has exclusive access to the value and takes no lock.
raw_get_mut(t, h, v) ==
    /\ AtTop(t)
    /\ handles[h].owner = t
    /\ rawmg[t] = 0
    /\ heap[handles[h].arc].strong = 1
    /\ heap' = Store(heap, handles[h].arc, handles[h].root,
                     [v |-> v, via |-> "handle", by |-> h])
    /\ UNCHANGED <<guards, handles, stack, unwinding, rawmg, result>>

\* drop of the raw handle's MutexGuard.
raw_unlock(t) ==
    /\ AtTop(t)
    /\ rawmg[t] # 0
    /\ heap' = MutexUnlock(heap, handles[rawmg[t]].arc, FALSE)
    /\ rawmg' = [rawmg EXCEPT ![t] = 0]
    /\ UNCHANGED <<guards, handles, stack, unwinding, result>>

\* ---------------------------------------------------------- specification

Next ==
    \/ \E t \in Threads, v \in Values : new(t, v)
    \/ \E t \in Threads, g \in Guards, u \in Threads : clone(t, g, u)
    \/ \E t \in Threads, g \in Guards : arc(t, g)
    \/ \E t \in Threads, g \in Guards : execute_call(t, g)
    \/ \E t \in Threads, r \in Values : execute_return(t, r)
    \/ \E t \in Threads : cb_lock(t)
    \/ \E t \in Threads : cb_acquire(t)
    \/ \E t \in Threads : cb_try_lock(t)
    \/ \E t \in Threads : cb_read(t)
    \/ \E t \in Threads, v \in Values : cb_write(t, v)
    \/ \E t \in Threads : cb_unlock(t)
    \/ \E t \in Threads : cb_stash(t)
    \/ \E t \in Threads : cb_panic(t)
    \/ \E t \in Threads : unwind(t)
    \/ \E t \in Threads, g \in Guards : drop_guard(t, g)
    \/ \E t \in Threads, h \in Handles : drop_handle(t, h)
    \/ \E t \in Threads, h \in Handles : raw_lock(t, h)
    \/ \E t \in Threads, v \in Values : raw_write(t, v)
    \/ \E t \in Threads, h \in Handles, v \in Values : raw_get_mut(t, h, v)
    \/ \E t \in Threads : raw_unlock(t)

Spec == Init /\ [][Next]_vars

\* ------------------------------------------ the counting scenario of the spec
\* Construct(v), once; the threads each call Access once with the callback
\* |h| { let mut x = h.lock().unwrap(); *x += 1; *x }; nothing is dropped.

IncValues == 0..(MaxVal + NThreads)

\* The callback's steps after lock(): let x = *value; *value = x + 1; return.
IncRead(t) ==
    Depth(t) > 0 /\ Top(t).tmp = {} /\ ~Top(t).wrote /\ cb_read(t)
IncWrite(t) ==
    \E v \in IncValues :
        Depth(t) > 0 /\ Top(t).tmp = {v - 1} /\ ~Top(t).wrote /\ cb_write(t, v)
IncReturn(t) ==
    \E r \in IncValues :
        /\ Depth(t) > 0
        /\ Top(t).wrote
        /\ r = heap[Top(t).c].value
        /\ execute_return(t, r)

NextInc ==
    \/ \E t \in Threads, v \in Values : FreeCells = Cells /\ new(t, v)
    \/ \E t \in Threads, g \in Guards, u \in Threads : clone(t, g, u)
    \/ \E t \in Threads, g \in Guards :
          Depth(t) = 0 /\ result[t] = {} /\ execute_call(t, g)
    \/ \E t \in Threads : cb_lock(t)
    \/ \E t \in Threads : cb_acquire(t)
    \/ \E t \in Threads : IncRead(t)
    \/ \E t \in Threads : IncWrite(t)
    \/ \E t \in Threads : IncReturn(t)

SpecInc == Init /\ [][NextInc]_vars

\* The counting scenario with fair scheduling: a thread that has entered its
\* call and can take its callback's next step (lock() can return when the
\* mutex stays free) takes it.
SpecIncFair ==
    /\ SpecInc
    /\ \A t \in Threads :
          /\ WF_vars(cb_lock(t))
          /\ WF_vars(cb_acquire(t))
          /\ WF_vars(IncRead(t))
          /\ WF_vars(IncWrite(t))
          /\ WF_vars(IncReturn(t))

\* ------------------------------------------------------------------ views

\* The frames of the execute calls in progress, as <<thread, depth>>.
Frames == {<<t, i>> : t \in Threads, i \in 1..MaxDepth} \cap
          {p \in Threads \X (1..MaxDepth) : p[2] <= Depth(p[1])}
Frame(p) == stack[p[1]][p[2]]

\* Who holds a MutexGuard of cell c: frames, and threads through a raw handle
\* (depth 0).
Holders(c) ==
    {p \in Frames : Frame(p).mg /\ Frame(p).c = c} \cup
    {<<t, 0>> : t \in {u \in Threads : rawmg[u] # 0 /\ handles[rawmg[u]].arc = c}}

\* The threads blocked in lock() on cell c.
Waiters(c) ==
    {t \in Threads : Depth(t) > 0 /\ Top(t).pc = "waiting" /\ Top(t).c = c}

\* The owners of cell c: guards, raw handles, and the handle clones that the
\* callbacks of the calls in progress still hold.
GuardOwners(c) == {g \in Guards : guards[g].owner # 0 /\ guards[g].arc = c}
HandleOwners(c) == {h \in Handles : handles[h].owner # 0 /\ handles[h].arc = c}
FrameOwners(c) == {p \in Frames : Frame(p).h = "held" /\ Frame(p).c = c}
NOwners(c) ==
    Cardinality(GuardOwners(c)) + Cardinality(HandleOwners(c))
        + Cardinality(FrameOwners(c))

\* The cell the guard of a frame was made for, and the last write to it.
FrameRoot(p) == guards[Frame(p).g].root
LastWrite(p) == heap[FrameRoot(p)].lastw

\* ------------------------------------------------------------------ claims

\* C1: mutual exclusion.  For every cell, at most one thread holds its lock
\* (a MutexGuard, through a callback's handle or a raw handle), the mutex
\* is locked while somebody holds it, and a thread waiting in lock() on the
\* cell is not among the holders.
C1_MutualExclusion ==
    \A c \in Cells :
        /\ Cardinality(Holders(c)) <= 1
        /\ Holders(c) # {} => heap[c].st = "live" /\ heap[c].locked
        /\ \A t \in Waiters(c) : ~Top(t).mg

\* C1 witness: one thread holds the lock of a cell through its callback while
\* another thread waits in lock() on the same cell.
C1_Witness ==
    \E c \in Cells, t \in Threads, u \in Threads :
        /\ t # u
        /\ <<t, 1>> \in Holders(c)
        /\ u \in Waiters(c)

\* The threads whose call has completed (each makes one call).
Completed == {t \in Threads : result[t] # {}}

\* C2: no lost updates.  In the counting scenario, whenever no call is in
\* progress the value is the initial value plus the number of calls completed.
C2_NoLostUpdates ==
    \A c \in Cells :
        (heap[c].st = "live" /\ \A t \in Threads : Depth(t) = 0)
            => heap[c].value = heap[c].v0 + Cardinality(Completed)

\* C2 witness: every thread has completed its call and the value is the
\* initial value plus the number of threads.
C2_Witness ==
    /\ \A t \in Threads : Depth(t) = 0 /\ result[t] # {}
    /\ \E c \in Cells :
          heap[c].st = "live" /\ heap[c].value = heap[c].v0 + NThreads

\* C3: reference lifetime.  A cell with an owner (a guard, a raw handle, a
\* handle clone held by a callback) is live; a live cell has an owner and
\* its value has not been dropped; a dead cell has no owner and its value
\* was dropped exactly once.
C3_Lifetime ==
    \A c \in Cells :
        /\ NOwners(c) > 0 => heap[c].st = "live"
        /\ heap[c].st = "live" => NOwners(c) > 0 /\ heap[c].drops = 0
        /\ heap[c].st = "dead" => heap[c].drops = 1
        /\ heap[c].st = "free" => heap[c].drops = 0

\* C3 witness: a cell whose guards have all been dropped is kept alive by a
\* raw handle, after another cell has been destroyed by the drop of its
\* last owner.
C3_Witness ==
    \E c \in Cells, d \in Cells :
        /\ heap[c].st = "live"
        /\ GuardOwners(c) = {}
        /\ FrameOwners(c) = {}
        /\ HandleOwners(c) # {}
        /\ heap[d].st = "dead"

\* C4: Access is reference-count neutral.  The step that enters a call
\* raises the strong count of the guard's cell by one, and the step in which
\* the callback returns lowers it by one (or destroys the cell): the clone
\* made for the call is dropped when the callback returns.
C4_AccessNeutral ==
    [][\A t \in Threads :
          /\ (Depth(t)' = Depth(t) + 1) =>
                LET c == Top(t)'.c
                IN  heap'[c].strong = heap[c].strong + 1
          /\ (Depth(t)' = Depth(t) - 1) =>
                LET c == Top(t).c
                IN  \/ heap'[c].strong = heap[c].strong - 1
                    \/ heap'[c].st = "dead"]_vars

\* The state of the mutex of cell c.
MutexState(c) == <<heap[c].locked, heap[c].poisoned>>
\* The steps that enter a call and that return from one change no mutex.
C5_NoLockStep ==
    \A t \in Threads :
        /\ (Depth(t)' = Depth(t) + 1) =>
              /\ \A c \in Cells : MutexState(c)' = MutexState(c)
              /\ ~Top(t)'.mg
        /\ (Depth(t)' = Depth(t) - 1 /\ ~Top(t).mg) =>
              \A c \in Cells :
                  heap'[c].st = "live" => MutexState(c)' = MutexState(c)

\* A call can be entered and a callback can return in every state of the mutex.
C5_NeverBlocks ==
    \A t \in Threads :
        /\ \A g \in Guards :
              ( /\ Running(t)
                /\ rawmg[t] = 0
                /\ guards[g].owner = t
                /\ Depth(t) < MaxDepth
                /\ Depth(t) > 0 => Top(t).mg ) => ENABLED execute_call(t, g)
        /\ InBody(t) => \A r \in Values : ENABLED execute_return(t, r)

\* C5: Access does no locking of its own and never blocks.  The step that
\* enters a call changes no mutex; the step in which a callback that holds
\* no MutexGuard returns changes no mutex; a call can be entered, and a
\* callback can return, whatever the state of the mutex.
C5_AccessNoLocking ==
    []C5_NeverBlocks /\ [][C5_NoLockStep]_vars

\* C5 witness: a thread is inside a callback that holds no MutexGuard while
\* another thread holds the lock of the same cell.
C5_Witness ==
    \E t \in Threads, u \in Threads :
        /\ t # u
        /\ InBody(t)
        /\ ~Top(t).mg
        /\ \E i \in 0..MaxDepth : <<u, i>> \in Holders(Top(t).c)

\* C6: Access returns the callback's result unchanged.  In the step in which
\* the callback of thread t returns r, the caller of execute receives r.
C6_ReturnsResult ==
    [][\A t \in Threads, r \in Values :
          execute_return(t, r) => result'[t] = {r}]_vars

\* C6 witness: a call has returned a value other than the default one to its
\* caller, and a call of another thread has returned a different value.
C6_Witness ==
    \E t \in Threads, u \in Threads :
        result[t] = {1} /\ result[u] = {0}

\* C7: StructuralCopy aliasing.  What a callback reads under the lock through
\* one guard is the value last written through another guard of the same
\* family (the original and its copies).
C7_CopyAliasing ==
    \A p \in Frames :
        ( /\ Frame(p).mg
          /\ Frame(p).tmp # {}
          /\ LastWrite(p).via = "guard"
          /\ LastWrite(p).by # Frame(p).g ) => Frame(p).tmp = {LastWrite(p).v}

\* C7 witness: a callback has read, through one guard, a value that was
\* written through another guard and differs from the initial value.
C7_Witness ==
    \E p \in Frames :
        /\ Frame(p).mg
        /\ LastWrite(p).via = "guard"
        /\ LastWrite(p).by # Frame(p).g
        /\ Frame(p).tmp = {LastWrite(p).v}
        /\ LastWrite(p).v # heap[FrameRoot(p)].v0

\* C8: Handle aliasing.  What a callback reads under the lock through a guard
\* is the value last written through a raw handle of the guard's cell.
C8_HandleAliasing ==
    \A p \in Frames :
        ( /\ Frame(p).mg
          /\ Frame(p).tmp # {}
          /\ LastWrite(p).via = "handle" ) => Frame(p).tmp = {LastWrite(p).v}

\* C8 witness: a callback has read a value that was written through a raw
\* handle and differs from the initial value.
C8_Witness ==
    \E p \in Frames :
        /\ Frame(p).mg
        /\ LastWrite(p).via = "handle"
        /\ Frame(p).tmp = {LastWrite(p).v}
        /\ LastWrite(p).v # heap[FrameRoot(p)].v0

\* A handle comes to be owned at a thread's top level (arc), or is dropped.
C9_HandleStep ==
    \A h \in Handles :
        /\ (handles[h].owner = 0 /\ handles'[h].owner # 0
                /\ Depth(handles'[h].owner) = 0) =>
              LET c == handles'[h].arc
              IN  /\ heap[c].st = "live"
                  /\ heap'[c] = [heap[c] EXCEPT !.strong = @ + 1]
                  /\ \E g \in Guards :
                        guards[g].owner = handles'[h].owner /\ guards[g].arc = c
        /\ (handles[h].owner # 0 /\ handles'[h].owner = 0) =>
              LET c == handles[h].arc
              IN  \/ heap'[c].strong = heap[c].strong - 1
                  \/ heap'[c].st = "dead"

\* The strong count covers every guard and every raw handle.
C9_HandleHeld ==
    \A c \in Cells :
        heap[c].strong >= Cardinality(GuardOwners(c)) + Cardinality(HandleOwners(c))

\* C9: Handle() raises the strong count by one and does not release it.  A
\* step in which a thread at its top level comes to own a handle raises the
\* strong count of the handle's cell by one and changes no mutex and no
\* value; the count stays at least the number of guards and handles; a step
\* in which a handle is dropped lowers the count by one (or destroys the
\* cell).
C9_HandleCount ==
    []C9_HandleHeld /\ [][C9_HandleStep]_vars

\* C9 witness: a thread at its top level owns a raw handle next to its
\* guard, the strong count is 2 and the mutex is locked by nobody.
C9_Witness ==
    \E h \in Handles, g \in Guards :
        /\ handles[h].owner # 0
        /\ guards[g].owner = handles[h].owner
        /\ guards[g].arc = handles[h].arc
        /\ Depth(handles[h].owner) = 0
        /\ heap[handles[h].arc].strong = 2
        /\ ~heap[handles[h].arc].locked

\* The step of new, and the return of a call that read the constructed value.
C10_ConstructStep ==
    /\ \A t \in Threads, v \in Values :
          new(t, v) =>
              \E c \in Cells, g \in Guards :
                  /\ heap[c].st = "free"
                  /\ guards[g].owner = 0
                  /\ guards'[g].owner = t
                  /\ guards'[g].arc = c
                  /\ heap'[c].st = "live"
                  /\ heap'[c].value = v
                  /\ heap'[c].strong = 1
                  /\ ~heap'[c].locked
                  /\ ~heap'[c].poisoned
    /\ \A t \in Threads, r \in Values :
          ( /\ execute_return(t, r)
            /\ Top(t).mg
            /\ Top(t).tmp = {r}
            /\ LastWrite(<<t, Depth(t)>>).via = "new" ) =>
              result'[t] = {heap[FrameRoot(<<t, Depth(t)>>)].v0}

\* C10: Construct.  new(t, v) takes a cell that was not in use: afterwards it
\* is live, holds v, is unlocked and not poisoned and has strong count 1,
\* and the new guard points to it.  A callback that locks, reads and returns
\* the value, with no write since the construction, returns v to the caller
\* of execute.
C10_Construct ==
    [][C10_ConstructStep]_vars

\* C10 witness: a call on a freshly constructed guard, with no write since,
\* has returned the value 1 the guard was constructed with.
C10_Witness ==
    \E t \in Threads, g \in Guards :
        /\ Depth(t) = 0
        /\ result[t] = {1}
        /\ guards[g].owner = t
        /\ heap[guards[g].root].lastw.via = "new"
        /\ heap[guards[g].root].v0 = 1

\* A panic leaves execute by unwinding: the thread does not go on in the
\* callback of the call it unwinds, the call hands no value to its caller
\* (result keeps what the last call that returned gave), and the calls it is
\* nested in are unwound too.
C11_Propagates ==
    \A t \in Threads :
        /\ (cb_panic(t) \/ unwind(t)) =>
              /\ Depth(t)' = Depth(t) - 1
              /\ result'[t] = result[t]
              /\ unwinding'[t] = (Depth(t) > 1)
        /\ unwinding[t] =>
              \/ stack'[t] = stack[t]
              \/ Depth(t)' = Depth(t) - 1

\* Once a holder of the lock of a cell has panicked, the mutex is poisoned and
\* every callback that holds the lock got it with a PoisonError.
C11_Poisoned ==
    \A c \in Cells :
        heap[c].panicked =>
            /\ heap[c].poisoned
            /\ \A p \in Frames :
                  (Frame(p).mg /\ Frame(p).c = c) => Frame(p).res = "poison"

\* C11: poisoning is surfaced, not handled.  Once a callback has panicked
\* while it held the lock of a cell, every lock() a callback completes on the
\* cell afterwards, through any guard of the cell, returns a PoisonError;
\* execute does not catch the panic: it unwinds the call and the calls it is
\* nested in, and the call returns no value.
C11_PoisonSurfaced ==
    []C11_Poisoned /\ [][C11_Propagates]_vars

\* C11 witness: a holder of the lock has panicked, and a callback of another
\* call has since locked the cell and holds the lock with a PoisonError.
C11_Witness ==
    \E p \in Frames :
        /\ Frame(p).mg
        /\ Frame(p).res = "poison"
        /\ heap[Frame(p).c].panicked

\* new, clone and arc return what they are to return: the new guard or handle
\* exists after the step, owned by the thread it is for, on the right cell.
C12_Returns ==
    /\ \A t \in Threads, v \in Values :
          new(t, v) =>
              \E n \in Guards :
                  /\ guards[n].owner = 0
                  /\ guards'[n].owner = t
                  /\ heap'[guards'[n].arc].st = "live"
    /\ \A t \in Threads, g \in Guards, u \in Threads :
          clone(t, g, u) =>
              \E n \in Guards :
                  /\ guards[n].owner = 0
                  /\ guards'[n].owner = u
                  /\ guards'[n].arc = guards[g].arc
                  /\ heap'[guards[g].arc].st = "live"
    /\ \A t \in Threads, g \in Guards :
          arc(t, g) =>
              \E n \in Handles :
                  /\ handles[n].owner = 0
                  /\ handles'[n].owner = t
                  /\ handles'[n].arc = guards[g].arc
                  /\ heap'[guards[g].arc].st = "live"

\* A thread at its top level can complete new, and clone and arc on a guard it
\* owns, in every state of the mutex (an identifier for the result being left,
\* which is a bound of the model and not of the code).
C12_Completes ==
    \A t \in Threads :
        AtTop(t) =>
            /\ (FreeCells # {} /\ Cardinality(LiveCells) < MaxLive /\ FreeGuards # {})
                  => \A v \in Values : ENABLED new(t, v)
            /\ \A g \in Guards :
                  guards[g].owner = t =>
                      /\ FreeGuards # {} => \A u \in Threads : ENABLED clone(t, g, u)
                      /\ FreeHandles # {} => ENABLED arc(t, g)

\* C12: Construct, Handle and StructuralCopy are infallible.  In every
\* reachable state, whether the lock of the cell is held or not and whether
\* the mutex is poisoned or not, new, clone and arc can take their step, and
\* the step yields the new guard or handle; none has an error outcome.
C12_Infallible ==
    []C12_Completes /\ [][C12_Returns]_vars

\* C12 witness: a thread at its top level owns a guard of a cell that is
\* poisoned and whose lock another thread's callback holds, and can take a
\* handle from the guard.
C12_Witness ==
    \E t \in Threads, u \in Threads, g \in Guards :
        /\ t # u
        /\ AtTop(t)
        /\ guards[g].owner = t
        /\ heap[guards[g].arc].poisoned
        /\ <<u, 1>> \in Holders(guards[g].arc)
        /\ ENABLED arc(t, g)

\* The value of cell c changes in the step.
ValueChanged(c) ==
    /\ heap[c].st = "live"
    /\ heap'[c].st = "live"
    /\ heap'[c].value # heap[c].value

\* The step is no step of new, clone, arc, of a drop, or of execute's call or
\* return: no guard, handle or call comes or goes.
NoInterfaceStep ==
    /\ guards' = guards
    /\ handles' = handles
    /\ \A t \in Threads : Depth(t)' = Depth(t)

\* C13 as stated: the value is mutated only through Access.  Every step that
\* changes the value of a cell is a step of an execute callback that holds
\* the lock of the cell.
C13_OnlyAccess ==
    [][\A c \in Cells :
          ValueChanged(c) =>
              /\ NoInterfaceStep
              /\ \E p \in Frames :
                    /\ p \in Holders(c)
                    /\ p \in Holders(c)']_vars

\* C13, amended: the value is mutated only through a handle to the cell, by
\* an Access callback under the lock or through a raw handle (one that arc()
\* returned or a callback kept), under the lock or as the only owner of the
\* cell.  Every step that changes the value of a cell is a step of the
\* holder of the cell's lock, or is taken when a raw handle is the only
\* reference to the cell and nobody holds the lock; it is no step of new,
\* clone, arc, a drop, or execute's call or return.
C13_OnlyUnderLock ==
    [][\A c \in Cells :
          ValueChanged(c) =>
              /\ NoInterfaceStep
              /\ \/ Holders(c) # {} /\ Holders(c)' = Holders(c)
                 \/ /\ Holders(c) = {}
                    /\ heap[c].strong = 1
                    /\ HandleOwners(c) # {}]_vars

\* C13 witness: with no call in progress, the value of a cell differs from
\* the value it was constructed with, and was last written through a raw
\* handle.
C13_Witness ==
    \E c \in Cells :
        /\ \A t \in Threads : Depth(t) = 0
        /\ heap[c].st = "live"
        /\ heap[c].lastw.via = "handle"
        /\ heap[c].value # heap[c].v0

\* Thread t waits in lock(), in a nested call, for a lock that a callback of
\* its own, further out on its stack, holds.
SelfDeadlocked(t) ==
    /\ Depth(t) > 1
    /\ Top(t).pc = "waiting"
    /\ \E i \in 1..(Depth(t) - 1) :
          stack[t][i].mg /\ stack[t][i].c = Top(t).c

\* A thread that is in a self-deadlock cannot acquire the lock.
C14_Stuck ==
    \A t \in Threads : SelfDeadlocked(t) => ~ENABLED cb_acquire(t)

\* A thread that is in a self-deadlock takes no step, and no step of another
\* thread gets it out.
C14_StaysStuck ==
    \A t \in Threads :
        SelfDeadlocked(t) =>
            /\ SelfDeadlocked(t)'
            /\ stack'[t] = stack[t]
            /\ result'[t] = result[t]

\* C14: self-deadlock on nested locking.  execute lets a callback that holds
\* the lock call execute again, on the same guard or a copy; when the nested
\* callback calls lock() on the same cell the thread waits for itself: lock()
\* cannot return, and the thread stays in that state whatever the other
\* threads do.
C14_SelfDeadlock ==
    []C14_Stuck /\ [][C14_StaysStuck]_vars

\* C14 witness: a thread waits in lock() in a call nested, through a copy of
\* the guard, in a call of its own whose callback holds the lock of the
\* same cell.
C14_Witness ==
    \E t \in Threads :
        /\ SelfDeadlocked(t)
        /\ stack[t][1].g # stack[t][2].g

\* The step in which a callback that holds the lock leaves (by return or by
\* unwinding) leaves the mutex unlocked.
C15_ReleasedAtExit ==
    \A t \in Threads :
        (Depth(t) > 0 /\ Depth(t)' = Depth(t) - 1 /\ Top(t).mg) =>
            (heap'[Top(t).c].st = "live" => ~heap'[Top(t).c].locked)

\* A locked mutex has a holder that has not left: a callback of a call in
\* progress, or the owner of a raw handle.  A thread that waits in lock() for
\* a mutex nobody holds can acquire it.
C15_NoOrphanLock ==
    \A c \in Cells :
        /\ heap[c].locked => Holders(c) # {}
        /\ \A t \in Waiters(c) :
              (~unwinding[t] /\ Holders(c) = {}) => ENABLED cb_acquire(t)

\* C15: lock release on all exit paths.  The lock a callback acquired is
\* released in the step in which the callback leaves, when it returns and
\* when it panics and is unwound; so a mutex is never locked with its holder
\* gone, and a thread blocked in lock() on a mutex whose holder has left can
\* go on.
C15_LockReleased ==
    []C15_NoOrphanLock /\ [][C15_ReleasedAtExit]_vars

\* C15 witness: the holder of the lock has left its callback by a panic, and
\* a thread that was blocked in lock() on the cell finds the mutex unlocked.
C15_Witness ==
    \E c \in Cells, t \in Threads :
        /\ t \in Waiters(c)
        /\ heap[c].panicked
        /\ ~heap[c].locked
        /\ Holders(c) = {}

\* The step of execute's call: the clone is made, the callback is entered on
\* the calling thread and on no other, with the clone, and nothing is
\* returned yet.
C16_Enters ==
    \A t \in Threads, g \in Guards :
        execute_call(t, g) =>
            /\ heap'[guards[g].arc].strong = heap[guards[g].arc].strong + 1
            /\ stack'[t] = Append(stack[t], Top(t)')
            /\ Top(t)'.g = g
            /\ Top(t)'.c = guards[g].arc
            /\ Top(t)'.h = "held"
            /\ Top(t)'.pc = "body"
            /\ result'[t] = {}
            /\ \A u \in Threads \ {t} : stack'[u] = stack[u]

\* The callback of a call is run once: the step in which it returns ends the
\* call, and a call hands a value to its caller only in the step in which its
\* callback, running on the caller's thread, returns.
C16_Leaves ==
    \A t \in Threads :
        /\ \A r \in Values :
              execute_return(t, r) =>
                  /\ stack'[t] = SubSeq(stack[t], 1, Depth(t) - 1)
                  /\ \A u \in Threads \ {t} : stack'[u] = stack[u]
        /\ (result'[t] # {} /\ result'[t] # result[t]) =>
              /\ InBody(t)
              /\ Depth(t)' = Depth(t) - 1

\* C16: each Access call invokes its callback exactly once, synchronously.
\* The call makes the clone and enters the callback on the calling thread in
\* one step; the callback runs there; the step in which it returns ends the
\* call and hands over its value: the callback is not skipped, not run again
\* and not run elsewhere or later.
C16_CallbackOnce ==
    [][C16_Enters /\ C16_Leaves]_vars

\* C16 witness: a call has returned to a thread at its top level, the write
\* its callback made under the lock is in the cell, and the clone made for
\* the call is gone.
C16_Witness ==
    \E t \in Threads, g \in Guards :
        /\ Depth(t) = 0
        /\ result[t] # {}
        /\ guards[g].owner = t
        /\ heap[guards[g].arc].lastw = [v |-> 1, via |-> "guard", by |-> g]
        /\ heap[guards[g].arc].v0 = 0
        /\ heap[guards[g].arc].strong = 1

\* The owners of cell c that the accounting names: the live guards (copies
\* included), the outstanding handles from arc(), and the clones of the calls
\* in progress (held by the callback, or put aside by it while it runs).
ArcHandles(c) == {h \in HandleOwners(c) : handles[h].from = "arc"}
FramesOn(c) == {p \in Frames : Frame(p).c = c}
NamedOwners(c) ==
    Cardinality(GuardOwners(c)) + Cardinality(ArcHandles(c))
        + Cardinality(FramesOn(c))

\* C17: reference-count accounting.  In every reachable state the strong
\* count of a live cell is the number of its live guards, plus the
\* outstanding handles from arc(), plus the clones of the calls in progress;
\* it is at least 1 while a guard exists.
C17_Accounting ==
    \A c \in Cells :
        /\ heap[c].st = "live" => heap[c].strong = NamedOwners(c)
        /\ GuardOwners(c) # {} => heap[c].strong >= 1

\* C18: progress without nesting.  In the counting scenario (every callback
\* locks once and releases the lock when it returns) with fair scheduling,
\* every call that has been entered comes to hold the lock, and every call
\* that has been entered returns to its caller: no interleaving deadlocks.
C18_Progress ==
    \A t \in Threads :
        /\ (Depth(t) > 0 /\ ~Top(t).mg) ~> (Depth(t) > 0 /\ Top(t).mg)
        /\ (Depth(t) > 0) ~> (Depth(t) = 0 /\ result[t] # {})

\* C18 witness: the calls of all the threads have returned, each with a
\* different count, and the mutex is free.
C18_Witness ==
    /\ \A t \in Threads : Depth(t) = 0 /\ result[t] # {}
    /\ \A t \in Threads, u \in Threads : t # u => result[t] # result[u]
    /\ \E c \in Cells : heap[c].st = "live" /\ ~heap[c].locked

\* Nothing of cell c changes in the step but its strong count, by d; no other
\* cell changes.
OnlyCount(c, d) ==
    /\ heap'[c] = [heap[c] EXCEPT !.strong = @ + d]
    /\ \A e \in Cells \ {c} : heap'[e] = heap[e]

\* The steps of arc, clone, the drop of a guard or handle that is not the last
\* owner, and execute's call and return (the callback holding no MutexGuard
\* of its own when it returns).
C19_FrameStep ==
    /\ \A t \in Threads, g \in Guards :
          /\ arc(t, g) => OnlyCount(guards[g].arc, 1)
          /\ execute_call(t, g) => OnlyCount(guards[g].arc, 1)
          /\ (drop_guard(t, g) /\ heap[guards[g].arc].strong > 1)
                => OnlyCount(guards[g].arc, -1)
          /\ \A u \in Threads : clone(t, g, u) => OnlyCount(guards[g].arc, 1)
    /\ \A t \in Threads, h \in Handles :
          (drop_handle(t, h) /\ heap[handles[h].arc].strong > 1)
              => OnlyCount(handles[h].arc, -1)
    /\ \A t \in Threads, r \in Values :
          (execute_return(t, r) /\ ~Top(t).mg) =>
              OnlyCount(Top(t).c, IF Top(t).h = "held" THEN -1 ELSE 0)

\* C19: frame of the wrapper operations.  arc, clone, the drop of a guard or
\* handle that is not the last owner, and execute's own call and return
\* steps change the strong count of the cell (arc, clone and the call raise
\* it by one, a drop and the return lower it by one) and nothing else of
\* it: not the value, not the lock, not the poison flag; no other cell
\* changes.
C19_WrapperFrame ==
    [][C19_FrameStep]_vars

\* C19 witness: a cell whose value has been changed, whose mutex is poisoned
\* and whose lock a callback holds has, besides its guards, a handle from
\* arc() and the clone of the call in progress among its owners.
C19_Witness ==
    \E c \in Cells, p \in Frames :
        /\ heap[c].st = "live"
        /\ heap[c].value # heap[c].v0
        /\ heap[c].poisoned
        /\ p \in Holders(c)
        /\ p \in FrameOwners(c)
        /\ ArcHandles(c) # {}
        /\ heap[c].strong >= 3

====
